---- MODULE Spec2Model ----
(***************************************************************************)
(* A model of the Viewability tracker (viewability.js): the tracker        *)
(* object's fields, the timer scheduler it arms, the intersection-signal   *)
(* subscription it opens, and the sinks its hooks write to.                *)
(*                                                                         *)
(* Numbers between 0 and 1 (thresholds, ratios, opacity) are kept in       *)
(* hundredths, so 0.5 is 50 and 0.3 is 30.                                 *)
(***************************************************************************)
EXTENDS Integers, Sequences, FiniteSets, TLC

VARIABLES
    phase,          \* "new" before the constructor ran, "live" after it returned, "dead" if it raised
    options,        \* this.options
    el,             \* this.el
    element,        \* this.element
    observer,       \* this.observer
    timer,          \* this.timer (handle)
    completed,      \* this.completed
    inView,         \* this.inView
    started,        \* this.started
    onComplete,     \* this.onComplete (hook assignable after construction)
    onError,        \* this.onError (hook assignable after construction)
    pending,        \* the scheduler: timers set by setTimeout and not yet run or cleared
    subscriptions,  \* the signal source: how many IntersectionObservers are connected
    completeCalls,  \* how many times a completion hook has been invoked
    errorSink,      \* what the last operation dispatched: sequence of [sink, msg, arg]
    thrown,         \* the last operation raised an exception to its caller
    age,            \* time units elapsed since the last setTimeout
    windowBad,      \* a below-threshold or classifier-rejected sample was handled since the last setTimeout
    sinceDone,      \* the last accepted sample delivered after completion: "none", "in" or "out"
    supplied,       \* the options argument of the constructor: [given, opts], before the merge
    probe           \* a call of the classifier: the snapshot it is given and what it returned

vars == <<phase, options, el, element, observer, timer, completed, inView, started,
          onComplete, onError, pending, subscriptions, completeCalls, errorSink, thrown,
          age, windowBad, sinceDone, supplied, probe>>

-----------------------------------------------------------------------------
(* Bounds of the model *)

MaxTimeInView == 2
MaxBatch == 2
MaxCalls == 2
MaxSubscriptions == 2

(* Program constants *)

largeSizeElement == 242500
DefaultInViewThreshold == 50
LargeInViewThreshold == 30
DefaultCoverageThreshold == 10
NumSamplePoints == 9

-----------------------------------------------------------------------------
(* Values *)

Null == "null"
Target == "element"
Throw == "throw"
NoTimer == 0
NullObserver == [active |-> FALSE, threshold |-> 0]

NoHook == "undefined"
Hooks == {NoHook, "fn", "throwing"}

EmptyEl == ""
ElemArgs == {"ref", "selector", "nullref"}

Min(a, b) == IF a < b THEN a ELSE b

(* What an option holds, next to its value: "boolean", "number" (a number that is
   not NaN), "NaN" (typeof gives "number", every comparison gives false),
   "string" or "undefined".  The value is read only under the kind it belongs to. *)
Kinds == {"boolean", "number", "NaN", "string", "undefined"}

(* typeof *)
TypeOf(kind) == IF kind = "NaN" THEN "number" ELSE kind

(* the option is a number that compares: a < b and a >= b are both false on NaN *)
Real(kind) == kind = "number"

AgeCap == MaxTimeInView + 1

-----------------------------------------------------------------------------
(* The tracker object together with the scheduler and the sinks, as one     *)
(* record, so that a method is an operator from record to record.           *)

Self ==
    [options |-> options, el |-> el, element |-> element, observer |-> observer,
     timer |-> timer, completed |-> completed, inView |-> inView, started |-> started,
     onComplete |-> onComplete, onError |-> onError, pending |-> pending,
     subscriptions |-> subscriptions, completeCalls |-> completeCalls, errorSink |-> <<>>, thrown |-> FALSE]

(* setTimeout: a fresh handle, different from every pending one and from the held one *)
NewTimerId(w) ==
    CHOOSE i \in 1..(Cardinality(w.pending) + 2) :
        /\ i # w.timer
        /\ \A p \in w.pending : p.id # i
        /\ \A j \in 1..(i - 1) : j = w.timer \/ \E p \in w.pending : p.id = j

(* _handleError with the assignable hook preferred to the option-level one *)
_handleError_chainableFirst(w, msg) ==
    LET hook == IF w.onError # NoHook THEN w.onError ELSE w.options.onError
    IN  IF hook # NoHook
        THEN [w EXCEPT !.errorSink = Append(@, [sink |-> IF w.onError # NoHook
                                                         THEN "this.onError"
                                                         ELSE "options.onError",
                                                msg |-> msg, arg |-> "Error"]),
                       !.thrown = (hook = "throwing")]
        ELSE [w EXCEPT !.errorSink = Append(@, [sink |-> "console", msg |-> msg,
                                                arg |-> "message"])]

(* _handleError: option-level hook, else assignable hook, else console.error(message);
   a hook is called with the Error, console.error with error.message *)
_handleError(w, msg) ==
    LET hook == IF w.options.onError # NoHook THEN w.options.onError ELSE w.onError
    IN  IF hook # NoHook
        THEN [w EXCEPT !.errorSink = Append(@, [sink |-> IF w.options.onError # NoHook
                                                         THEN "options.onError"
                                                         ELSE "this.onError",
                                                msg |-> msg, arg |-> "Error"]),
                       !.thrown = (hook = "throwing")]
        ELSE [w EXCEPT !.errorSink = Append(@, [sink |-> "console", msg |-> msg,
                                                arg |-> "message"])]

(* _stopTimer *)
_stopTimer(w) ==
    IF w.timer # NoTimer
    THEN [w EXCEPT !.pending = {p \in @ : p.id # w.timer}, !.timer = NoTimer]
    ELSE w

(* _unobserve with the guard on this.observer dropped *)
_unobserve_unguarded(w) ==
    IF w.observer.active
    THEN [w EXCEPT !.observer = NullObserver, !.subscriptions = @ - 1]
    ELSE [w EXCEPT !.thrown = TRUE]

(* _unobserve *)
_unobserve(w) ==
    IF w.observer.active /\ w.element # Null
    THEN [w EXCEPT !.observer = NullObserver, !.subscriptions = @ - 1]
    ELSE w

(* stop that forgets the timer *)
stop_keepsTimer(w) == _unobserve(w)

(* stop that also resets this.completed *)
stop_resetsCompleted(w) == [_stopTimer(_unobserve(w)) EXCEPT !.completed = FALSE]

(* stop that drops the timer handle without clearTimeout *)
stop_keepsPending(w) == [_unobserve(w) EXCEPT !.timer = NoTimer]

(* stop *)
stop(w) == _stopTimer(_unobserve(w))

(* _inView with the delay argument of setTimeout dropped *)
_inView_noDelay(w) ==
    [w EXCEPT !.started = TRUE,
              !.inView = TRUE,
              !.timer = NewTimerId(w),
              !.pending = @ \cup {[id |-> NewTimerId(w), remaining |-> 0]}]

(* _inView that keeps a handle but schedules nothing *)
_inView_unscheduled(w) ==
    [w EXCEPT !.started = TRUE, !.inView = TRUE, !.timer = NewTimerId(w)]

(* _inView *)
_inView(w) ==
    [w EXCEPT !.started = TRUE,
              !.inView = TRUE,
              !.timer = NewTimerId(w),
              !.pending = @ \cup {[id |-> NewTimerId(w),
                                    remaining |-> IF Real(w.options.kind.timeInView)
                                                  THEN w.options.timeInView
                                                  ELSE 0]}]

(* _outView that forgets the timer *)
_outView_keepsTimer(w) == [w EXCEPT !.inView = FALSE]

(* _outView *)
_outView(w) == _stopTimer([w EXCEPT !.inView = FALSE])

(* the completion hook with the assignable hook preferred *)
CompletionHook_chainableFirst(w) ==
    IF w.onComplete # NoHook THEN w.onComplete ELSE w.options.onComplete

(* this.options.onComplete ?? this.onComplete *)
CompletionHook(w) ==
    IF w.options.onComplete # NoHook THEN w.options.onComplete ELSE w.onComplete

(* _onComplete that never sets this.completed *)
_onComplete_keepsFlag(w) ==
    LET hook == CompletionHook(w)
        w1 == IF ~w.completed
              THEN [w EXCEPT !.completeCalls = IF hook # NoHook THEN Min(@ + 1, MaxCalls) ELSE @,
                             !.thrown = (hook = "throwing")]
              ELSE w
        w2 == IF w1.options.autostop THEN _unobserve(w1) ELSE w1
    IN  IF w1.thrown THEN w1 ELSE _stopTimer(w2)

(* _onComplete *)
_onComplete(w) ==
    LET hook == CompletionHook(w)
        w1 == IF ~w.completed
              THEN [w EXCEPT !.completed = TRUE,
                             !.completeCalls = IF hook # NoHook THEN Min(@ + 1, MaxCalls) ELSE @,
                             !.thrown = (hook = "throwing")]
              ELSE w
        w2 == IF w1.options.autostop THEN _unobserve(w1) ELSE w1
    IN  IF w1.thrown THEN w1 ELSE _stopTimer(w2)

-----------------------------------------------------------------------------
(* The true-visibility classifier.  A page snapshot `dom` is what the       *)
(* classifier reads at the moment of the call:                              *)
(*   hidden, display, visibility, opacity, transform   the element itself   *)
(*   points      for each of the nine sample points, in the code's order,   *)
(*               "off" (outside the viewport) or what elementFromPoint      *)
(*               yields there: "self" (the element or a descendant),        *)
(*               "other" (another element) or "none" (null)                 *)
(*   parents     the computed styles of the ancestors, nearest first        *)

(* the loop of _isObscured over the sample points from index i on *)
(* the loop of _isObscured with a strict comparison at the end *)
RECURSIVE ObscuredFrom_strict(_, _, _, _, _)
ObscuredFrom_strict(points, i, coveredCount, validPoints, coverageThreshold) ==
    IF i > Len(points)
    THEN coveredCount * 100 > coverageThreshold * validPoints
    ELSE IF points[i] = "off"
         THEN FALSE
         ELSE ObscuredFrom_strict(points, i + 1,
                           IF points[i] = "other" THEN coveredCount + 1 ELSE coveredCount,
                           validPoints + 1, coverageThreshold)

(* the loop of _isObscured skipping the points outside the viewport *)
RECURSIVE ObscuredFrom_skipsOff(_, _, _, _, _)
ObscuredFrom_skipsOff(points, i, coveredCount, validPoints, coverageThreshold) ==
    IF i > Len(points)
    THEN coveredCount * 100 >= coverageThreshold * validPoints
    ELSE IF points[i] = "off"
         THEN ObscuredFrom_skipsOff(points, i + 1, coveredCount, validPoints, coverageThreshold)
         ELSE ObscuredFrom_skipsOff(points, i + 1,
                           IF points[i] = "other" THEN coveredCount + 1 ELSE coveredCount,
                           validPoints + 1, coverageThreshold)

(* the loop of _isObscured counting a point over nothing as covered *)
RECURSIVE ObscuredFrom_countsNull(_, _, _, _, _)
ObscuredFrom_countsNull(points, i, coveredCount, validPoints, coverageThreshold) ==
    IF i > Len(points)
    THEN coveredCount * 100 >= coverageThreshold * validPoints
    ELSE IF points[i] = "off"
         THEN FALSE
         ELSE ObscuredFrom_countsNull(points, i + 1,
                           IF points[i] \in {"other", "none"} THEN coveredCount + 1 ELSE coveredCount,
                           validPoints + 1, coverageThreshold)

(* the loop of _isObscured comparing the uncovered fraction with the threshold *)
RECURSIVE ObscuredFrom_minUncovered(_, _, _, _, _)
ObscuredFrom_minUncovered(points, i, coveredCount, validPoints, coverageThreshold) ==
    IF i > Len(points)
    THEN (validPoints - coveredCount) * 100 < coverageThreshold * validPoints
    ELSE IF points[i] = "off"
         THEN FALSE
         ELSE ObscuredFrom_minUncovered(points, i + 1,
                           IF points[i] = "other" THEN coveredCount + 1 ELSE coveredCount,
                           validPoints + 1, coverageThreshold)

RECURSIVE ObscuredFrom(_, _, _, _, _)
ObscuredFrom(points, i, coveredCount, validPoints, coverageThreshold) ==
    IF i > Len(points)
    THEN coveredCount * 100 >= coverageThreshold * validPoints
    ELSE IF points[i] = "off"
         THEN FALSE
         ELSE ObscuredFrom(points, i + 1,
                           IF points[i] = "other" THEN coveredCount + 1 ELSE coveredCount,
                           validPoints + 1, coverageThreshold)

(* _isObscured *)
_isObscured(w, dom) ==
    IF w.element = Null
    THEN FALSE
    ELSE /\ Real(w.options.kind.coverageThreshold)
         /\ ObscuredFrom(dom.points, 1, 0, 0, w.options.coverageThreshold)

(* the transform check of _isReallyVisible: TRUE when the transform hides the element *)
TransformHides(t) ==
    IF t.kind = "none"
    THEN FALSE
    ELSE IF t.kind = "matrix"
         THEN t.values[1] = 0 \/ t.values[4] = 0
         ELSE t.kind = "scale0"

(* the ancestor walk of _isReallyVisible: TRUE when some ancestor hides the element *)
ParentHides(parents) ==
    \E i \in 1..Len(parents) :
        \/ parents[i].display = "none"
        \/ parents[i].visibility \in {"hidden", "collapse"}

(* _isReallyVisible *)
_isReallyVisible(w, rect, dom) ==
    IF w.element = Null THEN FALSE
    ELSE IF dom.hidden THEN FALSE
    ELSE IF \/ dom.display = "none"
            \/ dom.visibility = "hidden"
            \/ dom.visibility = "collapse"
            \/ dom.opacity = 0
         THEN FALSE
    ELSE IF rect.width = 0 \/ rect.height = 0 THEN FALSE
    ELSE IF TransformHides(dom.transform) THEN FALSE
    ELSE IF _isObscured(w, dom) THEN FALSE
    ELSE ~ParentHides(dom.parents)

(* _viewableChange without the check of this.completed *)
_viewableChange_afterDone(w, entries, dom) ==
    IF Len(entries) = 0 THEN w
    ELSE IF /\ w.options.isVisible
            /\ ~_isReallyVisible(w, entries[1].boundingClientRect, dom)
         THEN w
    ELSE LET entry == entries[1]
             w1 == IF /\ Real(w.options.kind.inViewThreshold)
                      /\ entry.intersectionRatio < w.options.inViewThreshold
                      /\ w.started
                      /\ w.inView
                   THEN _outView(w)
                   ELSE w
         IN  IF /\ Real(w1.options.kind.inViewThreshold)
                /\ entry.intersectionRatio >= w1.options.inViewThreshold
                /\ ~w1.inView
             THEN _inView(w1)
             ELSE w1

(* _viewableChange with the classifier consulted after the out-view check *)
_viewableChange_gateLate(w, entries, dom) ==
    IF Len(entries) = 0 \/ w.completed THEN w
    ELSE LET entry == entries[1]
             w1 == IF /\ Real(w.options.kind.inViewThreshold)
                      /\ entry.intersectionRatio < w.options.inViewThreshold
                      /\ w.started
                      /\ w.inView
                   THEN _outView(w)
                   ELSE w
         IN  IF /\ w.options.isVisible
                /\ ~_isReallyVisible(w, entry.boundingClientRect, dom)
             THEN w1
             ELSE IF /\ Real(w1.options.kind.inViewThreshold)
                     /\ entry.intersectionRatio >= w1.options.inViewThreshold
                     /\ ~w1.inView
                  THEN _inView(w1)
                  ELSE w1

(* _viewableChange with the classifier consulted whatever options.isVisible is *)
_viewableChange_alwaysClassify(w, entries, dom) ==
    IF Len(entries) = 0 \/ w.completed THEN w
    ELSE IF ~_isReallyVisible(w, entries[1].boundingClientRect, dom)
         THEN w
    ELSE LET entry == entries[1]
             w1 == IF /\ Real(w.options.kind.inViewThreshold)
                      /\ entry.intersectionRatio < w.options.inViewThreshold
                      /\ w.started
                      /\ w.inView
                   THEN _outView(w)
                   ELSE w
         IN  IF /\ Real(w1.options.kind.inViewThreshold)
                /\ entry.intersectionRatio >= w1.options.inViewThreshold
                /\ ~w1.inView
             THEN _inView(w1)
             ELSE w1

(* _viewableChange reading the last entry of the batch *)
_viewableChange_lastEntry(w, entries, dom) ==
    IF Len(entries) = 0 \/ w.completed THEN w
    ELSE IF /\ w.options.isVisible
            /\ ~_isReallyVisible(w, entries[Len(entries)].boundingClientRect, dom)
         THEN w
    ELSE LET entry == entries[Len(entries)]
             w1 == IF /\ Real(w.options.kind.inViewThreshold)
                      /\ entry.intersectionRatio < w.options.inViewThreshold
                      /\ w.started
                      /\ w.inView
                   THEN _outView(w)
                   ELSE w
         IN  IF /\ Real(w1.options.kind.inViewThreshold)
                /\ entry.intersectionRatio >= w1.options.inViewThreshold
                /\ ~w1.inView
             THEN _inView(w1)
             ELSE w1

(* _viewableChange arming a timer on every in-view sample *)
_viewableChange_rearm(w, entries, dom) ==
    IF Len(entries) = 0 \/ w.completed THEN w
    ELSE IF /\ w.options.isVisible
            /\ ~_isReallyVisible(w, entries[1].boundingClientRect, dom)
         THEN w
    ELSE LET entry == entries[1]
             w1 == IF /\ Real(w.options.kind.inViewThreshold)
                      /\ entry.intersectionRatio < w.options.inViewThreshold
                      /\ w.started
                      /\ w.inView
                   THEN _outView(w)
                   ELSE w
         IN  IF /\ Real(w1.options.kind.inViewThreshold)
                /\ entry.intersectionRatio >= w1.options.inViewThreshold
             THEN _inView(_stopTimer(w1))
             ELSE w1

(* _viewableChange *)
_viewableChange(w, entries, dom) ==
    IF Len(entries) = 0 \/ w.completed THEN w
    ELSE IF /\ w.options.isVisible
            /\ ~_isReallyVisible(w, entries[1].boundingClientRect, dom)
         THEN w
    ELSE LET entry == entries[1]
             w1 == IF /\ Real(w.options.kind.inViewThreshold)
                      /\ entry.intersectionRatio < w.options.inViewThreshold
                      /\ w.started
                      /\ w.inView
                   THEN _outView(w)
                   ELSE w
         IN  IF /\ Real(w1.options.kind.inViewThreshold)
                /\ entry.intersectionRatio >= w1.options.inViewThreshold
                /\ ~w1.inView
             THEN _inView(w1)
             ELSE w1

-----------------------------------------------------------------------------
(* Element resolution.  `page` is what the document holds at the moment of  *)
(* the call: byId / bySelector tell whether getElementById / querySelector  *)
(* find the target for a non-empty string, width and height are the         *)
(* element's getBoundingClientRect().                                       *)

(* _getElement without the querySelector fallback *)
_getElement_idOnly(elem, page) ==
    IF elem = EmptyEl THEN Throw
    ELSE IF elem \in {"selector", "id"}
         THEN IF page.byId THEN Target ELSE Null
    ELSE IF elem = "ref" THEN Target
    ELSE Null

(* _getElement: the element, Null, or Throw.  A string is looked up by
   getElementById and, when that finds nothing, by querySelector, which raises a
   SyntaxError on a string that is no valid selector: the empty string, or an id
   such as "1st-banner" ("id" below; "selector" is a string valid as a selector) *)
_getElement(elem, page) ==
    IF elem = EmptyEl THEN Throw
    ELSE IF elem = "selector"
         THEN IF page.byId \/ page.bySelector THEN Target ELSE Null
    ELSE IF elem = "id"
         THEN IF page.byId THEN Target ELSE Throw
    ELSE IF elem = "ref" THEN Target
    ELSE Null

(* _initializeElement resolving the target again on every call *)
_initializeElement_reresolves(w, page) ==
    LET found == _getElement(w.el, page)
    IN  IF found = Throw THEN [w EXCEPT !.thrown = TRUE]
        ELSE IF found = Null THEN _handleError([w EXCEPT !.element = Null], "Element not found")
        ELSE [w EXCEPT !.element = found]

(* _initializeElement *)
_initializeElement(w, page) ==
    IF w.element = Null
    THEN LET found == _getElement(w.el, page)
         IN  IF found = Throw THEN [w EXCEPT !.thrown = TRUE]
             ELSE IF found = Null THEN _handleError(w, "Element not found")
             ELSE [w EXCEPT !.element = found]
    ELSE w

(* start without the check of this.observer *)
start_noGuard(w, page) ==
    LET w1 == _initializeElement(w, page)
        threshold == IF /\ Real(w1.options.kind.inViewThreshold)
                        /\ w1.options.inViewThreshold = DefaultInViewThreshold
                        /\ page.width * page.height >= largeSizeElement
                     THEN LargeInViewThreshold
                     ELSE w1.options.inViewThreshold
    IN  IF w1.thrown THEN w1
        ELSE IF w1.element = Null THEN w1
        ELSE IF ~Real(w1.options.kind.inViewThreshold) THEN [w1 EXCEPT !.thrown = TRUE]
        ELSE [w1 EXCEPT !.options.inViewThreshold = threshold,
                        !.observer = [active |-> TRUE, threshold |-> threshold],
                        !.subscriptions = Min(@ + 1, MaxSubscriptions)]


(* start() with the large-element rule applied to areas above the limit only *)
start_strictArea(w, page) ==
    LET w1 == _initializeElement(w, page)
        threshold == IF /\ Real(w1.options.kind.inViewThreshold)
                        /\ w1.options.inViewThreshold = DefaultInViewThreshold
                        /\ page.width * page.height > largeSizeElement
                     THEN LargeInViewThreshold
                     ELSE w1.options.inViewThreshold
    IN  IF w1.thrown THEN w1
        ELSE IF w1.observer.active \/ w1.element = Null THEN w1
        ELSE IF ~Real(w1.options.kind.inViewThreshold) THEN [w1 EXCEPT !.thrown = TRUE]
        ELSE [w1 EXCEPT !.options.inViewThreshold = threshold,
                        !.observer = [active |-> TRUE, threshold |-> threshold],
                        !.subscriptions = Min(@ + 1, MaxSubscriptions)]

(* start() with the large-element rule applied ahead of the subscription guard *)
start_adjustsAlways(w, page) ==
    LET w1 == _initializeElement(w, page)
        threshold == IF /\ Real(w1.options.kind.inViewThreshold)
                        /\ w1.options.inViewThreshold = DefaultInViewThreshold
                        /\ page.width * page.height >= largeSizeElement
                     THEN LargeInViewThreshold
                     ELSE w1.options.inViewThreshold
        w2 == [w1 EXCEPT !.options.inViewThreshold = threshold]
    IN  IF w1.thrown THEN w1
        ELSE IF w1.element = Null THEN w1
        ELSE IF w1.observer.active THEN w2
        ELSE IF ~Real(w1.options.kind.inViewThreshold) THEN [w1 EXCEPT !.thrown = TRUE]
        ELSE [w2 EXCEPT !.observer = [active |-> TRUE, threshold |-> threshold],
                        !.subscriptions = Min(@ + 1, MaxSubscriptions)]


(* start() with the large-element rule applied to every threshold *)
start_adjustsAny(w, page) ==
    LET w1 == _initializeElement(w, page)
        threshold == IF /\ Real(w1.options.kind.inViewThreshold)
                        /\ page.width * page.height >= largeSizeElement
                     THEN LargeInViewThreshold
                     ELSE w1.options.inViewThreshold
    IN  IF w1.thrown THEN w1
        ELSE IF w1.observer.active \/ w1.element = Null THEN w1
        ELSE IF ~Real(w1.options.kind.inViewThreshold) THEN [w1 EXCEPT !.thrown = TRUE]
        ELSE [w1 EXCEPT !.options.inViewThreshold = threshold,
                        !.observer = [active |-> TRUE, threshold |-> threshold],
                        !.subscriptions = Min(@ + 1, MaxSubscriptions)]

(* start; new IntersectionObserver raises a TypeError on a threshold that is NaN *)
start(w, page) ==
    LET w1 == _initializeElement(w, page)
        threshold == IF /\ Real(w1.options.kind.inViewThreshold)
                        /\ w1.options.inViewThreshold = DefaultInViewThreshold
                        /\ page.width * page.height >= largeSizeElement
                     THEN LargeInViewThreshold
                     ELSE w1.options.inViewThreshold
    IN  IF w1.thrown THEN w1
        ELSE IF w1.observer.active \/ w1.element = Null THEN w1
        ELSE IF ~Real(w1.options.kind.inViewThreshold) THEN [w1 EXCEPT !.thrown = TRUE]
        ELSE [w1 EXCEPT !.options.inViewThreshold = threshold,
                        !.observer = [active |-> TRUE, threshold |-> threshold],
                        !.subscriptions = Min(@ + 1, MaxSubscriptions)]

(* _validateOptions: the number of the first check that fails, in the order the
   code makes them, 0 when all pass *)
FailedCheck(o) ==
    IF TypeOf(o.kind.autostart) # "boolean" THEN 1
    ELSE IF TypeOf(o.kind.autostop) # "boolean" THEN 2
    ELSE IF TypeOf(o.kind.isVisible) # "boolean" THEN 3
    ELSE IF \/ TypeOf(o.kind.coverageThreshold) # "number"
            \/ Real(o.kind.coverageThreshold) /\ o.coverageThreshold <= 0
            \/ Real(o.kind.coverageThreshold) /\ o.coverageThreshold > 100
         THEN 4
    ELSE IF \/ TypeOf(o.kind.inViewThreshold) # "number"
            \/ Real(o.kind.inViewThreshold) /\ o.inViewThreshold < 0
            \/ Real(o.kind.inViewThreshold) /\ o.inViewThreshold > 100
         THEN 5
    ELSE IF \/ TypeOf(o.kind.timeInView) # "number"
            \/ Real(o.kind.timeInView) /\ o.timeInView < 0
         THEN 6
    ELSE 0

(* _validateOptions: the message of the error each check reports *)
CheckMessage(check) ==
    IF check \in {1, 2, 3} THEN "'coverageThreshold' must be 'true' or 'false'"
    ELSE IF check = 4 THEN "'coverageThreshold' must be a number greater than 0 and up to 1"
    ELSE IF check = 5 THEN "'inViewThreshold' must be a number between 0 and 1"
    ELSE IF check = 6 THEN "'timeInView' must be a number greater than or equal to 0"
    ELSE ""

(* _validateOptions: the message of the first violated check, "" when all pass *)
ValidationError(o) == CheckMessage(FailedCheck(o))

(* _validateOptions: dispatches the error of the first violated check *)
_validateOptions(w) ==
    IF ValidationError(w.options) # ""
    THEN _handleError(w, ValidationError(w.options))
    ELSE w

(* constructor that starts whatever options.autostart is *)
constructor_alwaysStarts(w, elem, opts, page) ==
    LET w0 == [w EXCEPT !.options = opts]
        w1 == _validateOptions(w0)
        w2 == [w1 EXCEPT !.el = elem]
    IN  IF w1.thrown \/ ValidationError(opts) # "" THEN w1
        ELSE start(w2, page)

(* constructor *)
constructor(w, elem, opts, page) ==
    LET w0 == [w EXCEPT !.options = opts]
        w1 == _validateOptions(w0)
        w2 == [w1 EXCEPT !.el = elem]
    IN  IF w1.thrown \/ ValidationError(opts) # "" THEN w1
        ELSE IF opts.autostart THEN start(w2, page)
        ELSE w2

-----------------------------------------------------------------------------
(* Inputs *)

(* the kinds of a configuration whose options all have the documented types *)
ValidKinds ==
    [autostart |-> "boolean", autostop |-> "boolean", isVisible |-> "boolean",
     coverageThreshold |-> "number", inViewThreshold |-> "number", timeInView |-> "number"]

(* the defaults the constructor merges the caller's options over *)
DefaultOptions ==
    [autostart |-> TRUE, autostop |-> TRUE, coverageThreshold |-> DefaultCoverageThreshold,
     inViewThreshold |-> DefaultInViewThreshold, isVisible |-> TRUE,
     timeInView |-> MaxTimeInView, onComplete |-> NoHook, onError |-> NoHook,
     kind |-> ValidKinds]

(* the options a caller can supply *)
OptionNames == DOMAIN ValidKinds

(* Object.assign(defaults, options): an option the caller gave replaces the
   default, whatever its value; an option the caller left out keeps the default *)
Merge(opts, given) ==
    [f \in DOMAIN DefaultOptions |->
        IF f = "kind"
        THEN [g \in OptionNames |-> IF g \in given THEN opts.kind[g] ELSE ValidKinds[g]]
        ELSE IF f \in given \/ f \notin OptionNames THEN opts[f] ELSE DefaultOptions[f]]

(* configurations in which the caller gives every option, and that pass validation *)
ValidOptions ==
    [autostart : BOOLEAN, autostop : BOOLEAN,
     coverageThreshold : {DefaultCoverageThreshold},
     inViewThreshold : {DefaultInViewThreshold, 40},
     isVisible : BOOLEAN,
     timeInView : 0..MaxTimeInView,
     onComplete : Hooks, onError : {NoHook},
     kind : {ValidKinds}]

(* options arguments: which options the caller gives, and their values *)
SuppliedOptions ==
    [given : SUBSET {"autostart", "inViewThreshold"},
     opts : [autostart : {FALSE}, autostop : {TRUE},
             coverageThreshold : {DefaultCoverageThreshold},
             inViewThreshold : {0, LargeInViewThreshold, 40, DefaultInViewThreshold, 100},
             isVisible : {FALSE},
             timeInView : {0},
             onComplete : {NoHook}, onError : {NoHook},
             kind : {ValidKinds}]]

(* every argument the caller may pass as elem *)
AllElemArgs == ElemArgs \cup {"id"}

(* an option as the caller may supply it: its kind and, under that kind, its value *)
Opt(kind, value) == [k |-> kind, v |-> value]
BooleanChoices(values) == {Opt("boolean", b) : b \in values} \cup {Opt("string", FALSE)}
NumberChoices(values) ==
    {Opt("number", n) : n \in values} \cup {Opt("NaN", 0), Opt("undefined", 0)}

(* merged configurations, valid and invalid; the valid ones are kept few *)
AllOptions ==
    {[autostart |-> a.v, autostop |-> b.v, isVisible |-> c.v,
      coverageThreshold |-> d.v, inViewThreshold |-> e.v, timeInView |-> f.v,
      onComplete |-> NoHook, onError |-> h,
      kind |-> [autostart |-> a.k, autostop |-> b.k, isVisible |-> c.k,
                coverageThreshold |-> d.k, inViewThreshold |-> e.k, timeInView |-> f.k]] :
        a \in BooleanChoices(BOOLEAN), b \in BooleanChoices({TRUE}),
        c \in BooleanChoices({FALSE}),
        d \in NumberChoices({0, DefaultCoverageThreshold, 101}),
        e \in NumberChoices({-1, 40, DefaultInViewThreshold, 101}),
        f \in NumberChoices({-1, 0}),
        h \in Hooks}

(* what the document holds when start() looks at it *)
Pages ==
    [byId : BOOLEAN, bySelector : BOOLEAN, width : {970}, height : {249, 250}]

Ratios == {0, 40, 50}
EntryRects == {[width |-> 300, height |-> 250]}
Entries == [intersectionRatio : Ratios, boundingClientRect : EntryRects]
Batches == UNION {[1..n -> Entries] : n \in 0..MaxBatch}

Identity == [kind |-> "none", values |-> <<1, 0, 0, 1, 0, 0>>]
AllPoints(v) == [i \in 1..NumSamplePoints |-> v]
VisibleDom ==
    [hidden |-> FALSE, display |-> "block", visibility |-> "visible", opacity |-> 100,
     transform |-> Identity, points |-> AllPoints("self"),
     parents |-> <<[display |-> "block", visibility |-> "visible"]>>]

(* page snapshots the signal source may deliver a sample under *)
DomSamples ==
    {VisibleDom, [VisibleDom EXCEPT !.display = "none"]}

(* page snapshots under which the classifier rejects the element, one per check *)
HiddenDoms ==
    {[VisibleDom EXCEPT !.hidden = TRUE],
     [VisibleDom EXCEPT !.display = "none"],
     [VisibleDom EXCEPT !.visibility = "hidden"],
     [VisibleDom EXCEPT !.opacity = 0],
     [VisibleDom EXCEPT !.transform = [kind |-> "scale0", values |-> <<0, 0, 0, 0, 0, 0>>]],
     [VisibleDom EXCEPT !.points = AllPoints("other")],
     [VisibleDom EXCEPT !.parents = <<[display |-> "none", visibility |-> "visible"]>>]}

(* A snapshot with geometry: the sample's rectangle, the viewport, and for   *)
(* each sample point what elementFromPoint yields there: "self", a          *)
(* "descendant" of the element, an "other" element, or "none" (null).       *)

Hits == {"self", "descendant", "other", "none"}

(* the nine sample points of _isObscured, in the code's order *)
SamplePoints(rect) ==
    LET right == rect.left + rect.width
        bottom == rect.top + rect.height
        q(n, d) == (n * d) \div 4
    IN  <<[x |-> rect.left + rect.width \div 2, y |-> rect.top + rect.height \div 2],
          [x |-> rect.left + q(rect.width, 1), y |-> rect.top + q(rect.height, 1)],
          [x |-> rect.left + q(rect.width, 3), y |-> rect.top + q(rect.height, 1)],
          [x |-> rect.left + q(rect.width, 1), y |-> rect.top + q(rect.height, 3)],
          [x |-> rect.left + q(rect.width, 3), y |-> rect.top + q(rect.height, 3)],
          [x |-> rect.left + 1, y |-> rect.top + 1],
          [x |-> right - 1, y |-> rect.top + 1],
          [x |-> rect.left + 1, y |-> bottom - 1],
          [x |-> right - 1, y |-> bottom - 1]>>

(* the viewport test of _isObscured *)
OffViewport(point, viewport) ==
    \/ point.x < 0
    \/ point.y < 0
    \/ point.x > viewport.innerWidth
    \/ point.y > viewport.innerHeight

(* what the loop of _isObscured meets at each of the nine points *)
PointsOf(rect, viewport, hits) ==
    [i \in 1..NumSamplePoints |->
        IF OffViewport(SamplePoints(rect)[i], viewport) THEN "off" ELSE hits[i]]

(* the page snapshot the classifier reads, of a snapshot with geometry *)
DomOf(s) ==
    [hidden |-> s.hidden, display |-> s.display, visibility |-> s.visibility,
     opacity |-> s.opacity, transform |-> s.transform,
     points |-> PointsOf(s.rect, s.viewport, s.hits), parents |-> s.parents]

VisibleParent == [display |-> "block", visibility |-> "visible"]
VisibleSnapshot ==
    [hidden |-> FALSE, display |-> "block", visibility |-> "visible", opacity |-> 100,
     transform |-> Identity, parents |-> <<VisibleParent>>,
     rect |-> [left |-> 0, top |-> 0, width |-> 300, height |-> 200],
     viewport |-> [innerWidth |-> 1000, innerHeight |-> 800],
     hits |-> AllPoints("self")]

(* snapshots that differ in the element's own state, its rectangle's size and
   its ancestors' styles *)
StyleSnapshots ==
    {[VisibleSnapshot EXCEPT !.hidden = h, !.display = d, !.visibility = v,
                             !.opacity = o, !.parents = ps,
                             !.rect.width = rw, !.rect.height = rh] :
        h \in BOOLEAN, d \in {"block", "none"},
        v \in {"visible", "hidden", "collapse"}, o \in {0, 50, 100},
        ps \in {<<>>, <<VisibleParent>>,
                <<VisibleParent, [display |-> "none", visibility |-> "visible"]>>,
                <<[display |-> "block", visibility |-> "hidden"], VisibleParent>>,
                <<VisibleParent, [display |-> "block", visibility |-> "collapse"]>>},
        rw \in {0, 300}, rh \in {0, 200}}

(* computed transforms: none, matrix(a, b, c, d, 0, 0), scale(0), and a string
   that neither regular expression of the classifier matches *)
Transforms ==
    {Identity,
     [kind |-> "scale0", values |-> <<0, 0, 0, 0, 0, 0>>],
     [kind |-> "other", values |-> <<1, 0, 0, 1, 0, 0>>]}
    \cup {[kind |-> "matrix", values |-> <<a, b, c, d, 0, 0>>] :
            a \in {-1, 0, 1}, b \in {-1, 0, 1}, c \in {-1, 0, 1}, d \in {-1, 0, 1}}

TransformSnapshots == {[VisibleSnapshot EXCEPT !.transform = t] : t \in Transforms}

(* answers of elementFromPoint: k points over another element and n points over
   nothing, from the first point on or from the last point back *)
HitPatterns ==
    {[i \in 1..NumSamplePoints |->
        LET j == IF front THEN i ELSE NumSamplePoints + 1 - i
        IN  IF j <= k THEN "other" ELSE IF j <= k + n THEN "none" ELSE u] :
        k \in 0..NumSamplePoints, n \in {0, 1, 4},
        u \in {"self", "descendant"}, front \in BOOLEAN}

(* rectangles on and across the edges of the viewport *)
ProbeRects ==
    [left : {-100, -1, 0, 700, 701, 702}, top : {-100, 0, 601},
     width : {300}, height : {200}]

OcclusionSnapshots ==
    {[VisibleSnapshot EXCEPT !.rect = r, !.hits = h] : r \in ProbeRects, h \in HitPatterns}

Snapshots == StyleSnapshots \cup TransformSnapshots \cup OcclusionSnapshots

CoverageThresholds == {DefaultCoverageThreshold, 50, 100}

NoProbe == [in |-> VisibleSnapshot, done |-> FALSE, visible |-> FALSE, obscured |-> FALSE]

-----------------------------------------------------------------------------
(* State machine *)

Init ==
    /\ phase = "new"
    /\ options = DefaultOptions
    /\ el = EmptyEl
    /\ element = Null
    /\ observer = NullObserver
    /\ timer = NoTimer
    /\ completed = FALSE
    /\ inView = FALSE
    /\ started = FALSE
    /\ onComplete = NoHook
    /\ onError = NoHook
    /\ pending = {}
    /\ subscriptions = 0
    /\ completeCalls = 0
    /\ errorSink = <<>>
    /\ thrown = FALSE
    /\ age = 0
    /\ windowBad = FALSE
    /\ sinceDone = "none"
    /\ supplied = [given |-> {}, opts |-> DefaultOptions]
    /\ probe = NoProbe

(* the object, scheduler and sinks after an operation that left them as r *)
Commit(r) ==
    /\ options' = r.options
    /\ el' = r.el
    /\ element' = r.element
    /\ observer' = r.observer
    /\ timer' = r.timer
    /\ completed' = r.completed
    /\ inView' = r.inView
    /\ started' = r.started
    /\ onComplete' = r.onComplete
    /\ onError' = r.onError
    /\ pending' = r.pending
    /\ subscriptions' = r.subscriptions
    /\ completeCalls' = r.completeCalls
    /\ errorSink' = r.errorSink
    /\ thrown' = r.thrown

(* the operation that led from w to r called setTimeout *)
Armed(w, r) == r.timer # NoTimer /\ r.timer # w.timer

(* new Viewability(elem, options) *)
Construct(Options) ==
    /\ phase = "new"
    /\ \E elem \in ElemArgs, opts \in Options, page \in Pages :
        LET r == constructor(Self, elem, opts, page)
        IN  /\ Commit(r)
            /\ phase' = IF r.thrown THEN "dead" ELSE "live"
            /\ supplied' = [given |-> OptionNames, opts |-> opts]
    /\ UNCHANGED <<age, windowBad, sinceDone, probe>>

(* tracker.start() *)
Start ==
    /\ phase = "live"
    /\ \E page \in Pages : Commit(start(Self, page))
    /\ UNCHANGED <<phase, age, windowBad, sinceDone, supplied, probe>>

(* tracker.stop() *)
Stop ==
    /\ phase = "live"
    /\ Commit(stop(Self))
    /\ UNCHANGED <<phase, age, windowBad, sinceDone, supplied, probe>>

(* the first entry of the batch passes the classifier gate of _viewableChange *)
Accepted(w, entries, dom) ==
    /\ Len(entries) > 0
    /\ \/ ~w.options.isVisible
       \/ _isReallyVisible(w, entries[1].boundingClientRect, dom)

(* the signal source delivers a batch of samples to _viewableChange *)
Sample ==
    /\ phase = "live"
    /\ observer.active
    /\ \E entries \in Batches, dom \in DomSamples :
        LET r == _viewableChange(Self, entries, dom)
            below == entries[1].intersectionRatio < options.inViewThreshold
            bad == Len(entries) > 0 /\ (below \/ ~Accepted(Self, entries, dom))
        IN  /\ Commit(r)
            /\ age' = IF Armed(Self, r) THEN 0 ELSE age
            /\ windowBad' = IF Armed(Self, r) THEN FALSE
                            ELSE IF ~completed /\ timer # NoTimer /\ bad THEN TRUE
                            ELSE windowBad
            /\ sinceDone' = IF completed /\ Accepted(Self, entries, dom)
                            THEN IF below THEN "out" ELSE "in"
                            ELSE sinceDone
    /\ UNCHANGED <<phase, supplied, probe>>

(* one time unit passes while a timer is still counting down *)
Tick ==
    /\ phase = "live"
    /\ \E p \in pending : p.remaining > 0
    /\ pending' = {[p EXCEPT !.remaining = IF @ > 0 THEN @ - 1 ELSE 0] : p \in pending}
    /\ age' = Min(age + 1, AgeCap)
    /\ UNCHANGED <<phase, options, el, element, observer, timer, completed, inView, started,
                   onComplete, onError, subscriptions, completeCalls, errorSink, thrown,
                   windowBad, sinceDone, supplied, probe>>

(* the scheduler runs a due timer's callback: () => this._onComplete() *)
TimerFire ==
    /\ phase = "live"
    /\ \E p \in pending :
        /\ p.remaining = 0
        /\ Commit(_onComplete([Self EXCEPT !.pending = @ \ {p}]))
    /\ UNCHANGED <<phase, age, windowBad, sinceDone, supplied, probe>>

(* tracker.onComplete = hook *)
SetOnComplete ==
    /\ phase = "live"
    /\ \E hook \in Hooks : hook # onComplete /\ Commit([Self EXCEPT !.onComplete = hook])
    /\ UNCHANGED <<phase, age, windowBad, sinceDone, supplied, probe>>

(* tracker.onError = hook *)
SetOnError ==
    /\ phase = "live"
    /\ \E hook \in Hooks : hook # onError /\ Commit([Self EXCEPT !.onError = hook])
    /\ UNCHANGED <<phase, age, windowBad, sinceDone, supplied, probe>>

ConstructValid == Construct(ValidOptions)

(* new Viewability(elem, options) with any argument and any configuration *)
ConstructAny ==
    /\ phase = "new"
    /\ \E elem \in AllElemArgs, opts \in AllOptions, page \in Pages :
        LET r == constructor(Self, elem, opts, page)
        IN  /\ Commit(r)
            /\ phase' = IF r.thrown THEN "dead" ELSE "live"
            /\ supplied' = [given |-> OptionNames, opts |-> opts]
    /\ UNCHANGED <<age, windowBad, sinceDone, probe>>

Next ==
    \/ ConstructValid
    \/ Start
    \/ Stop
    \/ Sample
    \/ Tick
    \/ TimerFire
    \/ SetOnComplete

Spec == Init /\ [][Next]_vars

(* new Viewability(elem, options) with some options given and the others left out *)
ConstructSupplied ==
    /\ phase = "new"
    /\ \E elem \in ElemArgs, arg \in SuppliedOptions, page \in Pages :
        LET r == constructor(Self, elem, Merge(arg.opts, arg.given), page)
        IN  /\ Commit(r)
            /\ phase' = IF r.thrown THEN "dead" ELSE "live"
            /\ supplied' = arg
    /\ UNCHANGED <<age, windowBad, sinceDone, probe>>

(* a tracker as construction leaves it, started or not, and a snapshot about to
   be classified *)
ClassifierInit ==
    /\ phase = "live"
    /\ \E c \in CoverageThresholds, a \in BOOLEAN :
        /\ options = [DefaultOptions EXCEPT !.coverageThreshold = c, !.autostart = a]
        /\ supplied = [given |-> {"coverageThreshold", "autostart"}, opts |-> options]
    /\ el = "ref"
    /\ element = IF options.autostart THEN Target ELSE Null
    /\ observer = IF options.autostart
                  THEN [active |-> TRUE, threshold |-> options.inViewThreshold]
                  ELSE NullObserver
    /\ subscriptions = IF options.autostart THEN 1 ELSE 0
    /\ timer = NoTimer
    /\ completed = FALSE
    /\ inView = FALSE
    /\ started = FALSE
    /\ onComplete = NoHook
    /\ onError = NoHook
    /\ pending = {}
    /\ completeCalls = 0
    /\ errorSink = <<>>
    /\ thrown = FALSE
    /\ age = 0
    /\ windowBad = FALSE
    /\ sinceDone = "none"
    /\ probe \in [in : Snapshots, done : {FALSE}, visible : {FALSE}, obscured : {FALSE}]

(* _isReallyVisible(rect) and _isObscured(rect) under the snapshot *)
Classify ==
    /\ ~probe.done
    /\ probe' = [probe EXCEPT !.done = TRUE,
                              !.visible = _isReallyVisible(Self, probe.in.rect, DomOf(probe.in)),
                              !.obscured = _isObscured(Self, DomOf(probe.in))]
    /\ UNCHANGED <<phase, options, el, element, observer, timer, completed, inView, started,
                   onComplete, onError, pending, subscriptions, completeCalls, errorSink,
                   thrown, age, windowBad, sinceDone, supplied>>

ClassifierSpec == ClassifierInit /\ [][Classify]_vars

(* construction with part of the options, then start() and stop() *)
SuppliedNext ==
    \/ ConstructSupplied
    \/ Start
    \/ Stop

SuppliedSpec == Init /\ [][SuppliedNext]_vars

(* construction with any configuration, then the tracker's operations; every
   accepted timeInView is 0 here, so no time has to pass *)
CtorNext ==
    \/ ConstructAny
    \/ Start
    \/ Stop
    \/ Sample
    \/ TimerFire
    \/ SetOnError

CtorSpec == Init /\ [][CtorNext]_vars

(* the scheduler is fair: time passes and a due timer's callback runs *)
FairSpec == Spec /\ WF_vars(Tick) /\ WF_vars(TimerFire)

-----------------------------------------------------------------------------
(* Properties *)

(* a timer set by the tracker is still waiting in the scheduler under the held handle *)
TimerArmed == \E p \in pending : p.id = timer

(* C1: the completion callback is invoked at most once, whatever start(), stop(),
   samples, timer firings and hook assignments follow, with autostop true or false *)
C1_AtMostOnce == completeCalls <= 1

C1_Witness == completed /\ completeCalls = 1 /\ sinceDone = "in"

(* C2: between handler executions a pending timer exists if and only if inView is
   true and completed is false *)
C2_TimerIffAwaiting ==
    phase = "live" => (TimerArmed <=> (inView /\ ~completed))

(* C3: the completion callback is invoked only if no sample handled while the
   timer was pending was below the threshold or rejected by the classifier *)
C3_OnlyIfContinuouslyVisible == completeCalls >= 1 => ~windowBad

(* C4: an accepted sample below the threshold, handled while inView with a timer
   armed, cancels the timer and clears inView, so nothing is left to fire; also
   when the timer is already due but its callback has not run *)
C4_OutViewCancels ==
    \A entries \in Batches, dom \in DomSamples :
        (/\ phase = "live"
         /\ observer.active
         /\ inView
         /\ TimerArmed
         /\ Accepted(Self, entries, dom)
         /\ entries[1].intersectionRatio < options.inViewThreshold)
        => LET r == _viewableChange(Self, entries, dom)
           IN  /\ r.timer = NoTimer
               /\ r.pending = {}
               /\ ~r.inView
               /\ ~r.completed
               /\ r.completeCalls = completeCalls

C4_Witness ==
    /\ observer.active /\ started /\ ~inView /\ ~completed
    /\ timer = NoTimer /\ pending = {}
    /\ options.timeInView > 0 /\ age >= options.timeInView

(* C5: completed becomes true only in a step that runs the due timer held by the
   tracker, and not before timeInView time units have passed since the in-view
   transition that armed it *)
C5_OnlyByTimer ==
    [][(~completed /\ completed')
        => /\ age >= options.timeInView
           /\ \E p \in pending : p.id = timer /\ p.remaining = 0 /\ p \notin pending']_vars

C5_Witness == completed /\ options.timeInView = MaxTimeInView /\ age = MaxTimeInView

(* C6: under a fair scheduler an armed timer leads to completion, with the
   completion hook (if any) invoked, unless an out-view transition or stop()
   cancels it *)
C6_Liveness ==
    (timer # NoTimer /\ ~completed)
        ~> \/ completed /\ (CompletionHook(Self) # NoHook => completeCalls = 1)
           \/ timer = NoTimer /\ ~completed

C6_Witness ==
    /\ completed /\ completeCalls = 1 /\ timer = NoTimer
    /\ options.onComplete = NoHook /\ onComplete = "fn"

(* C7: in the step that completes, the timer handle is cleared and the
   subscription is torn down if autostop is true and kept if it is false *)
C7_CleanupAtCompletion ==
    [][(~completed /\ completed')
        => /\ timer' = NoTimer
           /\ options.autostop => ~observer'.active
           /\ ~options.autostop => observer' = observer]_vars

(* C8 as stated: with autostop false, inView keeps following the accepted samples
   delivered after completion *)
C8_FollowsSamplesAfterDone ==
    (completed /\ ~options.autostop /\ observer.active /\ sinceDone # "none")
        => (inView <=> sinceDone = "in")

(* C8 as amended: with autostop false, samples delivered after completion are
   ignored: inView and started stay true, no timer is armed and the completion
   callback is not invoked again *)
C8_IgnoredAfterDone ==
    (completed /\ ~options.autostop /\ sinceDone # "none")
        => inView /\ started /\ pending = {} /\ completeCalls <= 1

C8_Witness ==
    completed /\ ~options.autostop /\ observer.active /\ sinceDone = "out" /\ inView

(* C9: from every reachable state, stop() leaves no active subscription and no
   pending timer *)
C9_StopClears ==
    phase = "live"
        => LET r == stop(Self)
           IN  ~r.observer.active /\ r.timer = NoTimer /\ r.pending = {}

C9_Witness ==
    /\ phase = "live" /\ started /\ inView /\ ~completed
    /\ ~observer.active /\ timer = NoTimer /\ pending = {}

(* C10: from every reachable state, a second stop() changes nothing that the
   first one left, and neither call raises or dispatches an error *)
C10_StopIdempotent ==
    phase = "live"
        => LET r1 == stop(Self)
               r2 == stop(r1)
           IN  r2 = r1 /\ ~r1.thrown /\ r1.errorSink = <<>>

C10_Witness ==
    /\ phase = "live" /\ options.autostart /\ element = Null
    /\ ~observer.active /\ timer = NoTimer /\ errorSink = <<>>

(* C11: completed is monotonic: once true, no operation (stop, start, samples,
   timer events, hook assignments) makes it false again *)
C11_CompletedMonotonic == [][completed => completed']_vars

C11_Witness ==
    /\ completed /\ options.autostop /\ observer.active
    /\ timer = NoTimer /\ ~thrown

(* C12: start() while a subscription exists changes nothing (no second
   subscription, no change of inViewThreshold or of any other field, no error),
   and the signal source never holds more than one subscription of the tracker *)
C12_StartNoOpWhenSubscribed ==
    /\ subscriptions <= 1
    /\ (phase = "live" /\ observer.active)
        => \A page \in Pages : start(Self, page) = Self

C12_Witness ==
    /\ phase = "live" /\ observer.active /\ subscriptions = 1
    /\ options.inViewThreshold = DefaultInViewThreshold
    /\ inView /\ timer # NoTimer /\ ~completed

(* a configuration that meets every stated condition: the three flags are
   booleans and the three numbers are numbers within their ranges *)
SpecValid(o) ==
    /\ o.kind.autostart = "boolean"
    /\ o.kind.autostop = "boolean"
    /\ o.kind.isVisible = "boolean"
    /\ o.kind.coverageThreshold = "number"
    /\ o.coverageThreshold > 0 /\ o.coverageThreshold <= 100
    /\ o.kind.inViewThreshold = "number"
    /\ o.inViewThreshold >= 0 /\ o.inViewThreshold <= 100
    /\ o.kind.timeInView = "number"
    /\ o.timeInView >= 0

(* whether the document holds the target the caller named *)
Resolvable(elem, page) ==
    IF elem = "ref" THEN TRUE
    ELSE IF elem = "selector" THEN page.byId \/ page.bySelector
    ELSE IF elem = "id" THEN page.byId
    ELSE FALSE

(* C13: when the target cannot be resolved, start() creates no subscription and
   no timer, leaves the element unset and dispatches exactly one 'Element not
   found' error *)
C13_UnresolvedReportsOnce ==
    (phase = "live" /\ SpecValid(options) /\ element = Null)
        => \A page \in Pages :
            ~Resolvable(el, page)
                => LET r == start(Self, page)
                   IN  /\ ~r.observer.active /\ r.subscriptions = subscriptions
                       /\ r.timer = NoTimer /\ r.pending = pending
                       /\ r.element = Null
                       /\ Len(r.errorSink) = 1
                       /\ r.errorSink[1].msg = "Element not found"

(* C14, first half: on a validly configured tracker whose element is still
   unset, a start() call made when the target resolves sets the element and
   opens the subscription, dispatching no error *)
C14_LaterStartResolves ==
    (phase = "live" /\ SpecValid(options) /\ element = Null)
        => \A page \in Pages :
            Resolvable(el, page)
                => LET r == start(Self, page)
                   IN  /\ r.element = Target /\ r.observer.active
                       /\ r.observer.threshold = r.options.inViewThreshold
                       /\ r.errorSink = <<>> /\ ~r.thrown

(* C14, second half: the element of a constructed tracker is set by a start()
   call and by nothing else *)
C14_NoRetryBetweenCalls ==
    (phase = "live" /\ element' # element)
        => \E page \in Pages : Commit(start(Self, page))

(* C14: after a failed resolution a later start() resolves the target and
   subscribes; between start() calls the tracker never retries *)
C14_RetryOnlyByStart == []C14_LaterStartResolves /\ [][C14_NoRetryBetweenCalls]_vars

C14_Witness ==
    /\ phase = "live" /\ SpecValid(options) /\ element = Null /\ el = "selector"
    /\ Len(errorSink) = 1 /\ errorSink[1].msg = "Element not found"
    /\ ~observer.active

(* the first check, in the stated order, that a configuration violates; 0 when
   it violates none *)
SpecFirstViolated(o) ==
    IF o.kind.autostart # "boolean" THEN 1
    ELSE IF o.kind.autostop # "boolean" THEN 2
    ELSE IF o.kind.isVisible # "boolean" THEN 3
    ELSE IF ~(/\ o.kind.coverageThreshold = "number"
              /\ o.coverageThreshold > 0 /\ o.coverageThreshold <= 100) THEN 4
    ELSE IF ~(/\ o.kind.inViewThreshold = "number"
              /\ o.inViewThreshold >= 0 /\ o.inViewThreshold <= 100) THEN 5
    ELSE IF ~(o.kind.timeInView = "number" /\ o.timeInView >= 0) THEN 6
    ELSE 0

(* C15: a tracker constructed with an invalid configuration is inert for good:
   its element stays unset and it never has a subscription or a timer, whatever
   is called afterwards and whether or not the target exists *)
C15_InvalidStaysInert ==
    (phase # "new" /\ ~SpecValid(options))
        => /\ element = Null /\ ~observer.active /\ subscriptions = 0
           /\ timer = NoTimer /\ pending = {}

(* C16: the validator accepts a configuration exactly when the three flags are
   booleans, 0 < coverageThreshold <= 1, 0 <= inViewThreshold <= 1 and
   timeInView >= 0 (the constructor stores the target only on acceptance) *)
C16_ValidatorExact ==
    phase # "new" => (el # EmptyEl <=> SpecValid(options))

(* C17: the construction of a tracker with an invalid configuration dispatches
   exactly one error, that of the first violated check in the order autostart,
   autostop, isVisible, coverageThreshold, inViewThreshold, timeInView, and
   neither resolves the target nor starts *)
C17_OneErrorFirstCheck ==
    [][(phase = "new" /\ phase' # "new" /\ ~SpecValid(options'))
        => /\ Len(errorSink') = 1
           /\ errorSink'[1].msg = CheckMessage(SpecFirstViolated(options'))
           /\ el' = EmptyEl /\ element' = Null /\ ~observer'.active]_vars

(* C18: each of the six checks reports its own error: the error dispatched for
   a rejected configuration is the error of no other check *)
C18_DistinctErrors ==
    (el = EmptyEl /\ Len(errorSink) = 1 /\ FailedCheck(options) # 0)
        => \A other \in (1..6) \ {FailedCheck(options)} :
            errorSink[1].msg # CheckMessage(other)

(* the threshold the large-element rule prescribes for a start() that opens a
   subscription, given the configured threshold and the element's area *)
RuleThreshold(configured, page) ==
    IF configured # DefaultInViewThreshold THEN configured
    ELSE IF page.width * page.height >= largeSizeElement THEN LargeInViewThreshold
    ELSE DefaultInViewThreshold

(* C19: a start() that opens a subscription lowers an inViewThreshold of exactly
   0.5 to 0.3 when the element's area is 242,500 or more (boundary included),
   leaves it at 0.5 below that area, never changes another threshold, and
   registers the subscription with the resulting threshold; the same holds of
   the start() made by the constructor *)
C19_LargeElementRule ==
    /\ phase = "live"
        => \A page \in Pages :
            LET r == start(Self, page)
            IN  (~observer.active /\ r.observer.active)
                    => /\ r.options.inViewThreshold =
                            RuleThreshold(options.inViewThreshold, page)
                       /\ r.observer.threshold = r.options.inViewThreshold
    /\ phase = "new"
        => \A elem \in ElemArgs, opts \in ValidOptions, page \in Pages :
            LET r == constructor(Self, elem, opts, page)
            IN  r.observer.active
                    => /\ r.options.inViewThreshold =
                            RuleThreshold(opts.inViewThreshold, page)
                       /\ r.observer.threshold = r.options.inViewThreshold
    /\ observer.active => observer.threshold = options.inViewThreshold

C19_Witness ==
    /\ phase = "live" /\ observer.active /\ ~started
    /\ observer.threshold = LargeInViewThreshold
    /\ options.inViewThreshold = LargeInViewThreshold

(* C20 as stated: the adjustment is made by the first start() call only, so a
   start() on a tracker whose element is already set (an earlier start() has
   opened a subscription, since closed by stop()) leaves inViewThreshold as it is *)
C20_OnlyFirstStart ==
    (phase = "live" /\ element # Null)
        => \A page \in Pages :
            start(Self, page).options.inViewThreshold = options.inViewThreshold

(* C20 as amended: on a constructed tracker inViewThreshold changes only from
   0.5 to 0.3, hence at most once, and only in a start() call that opens a
   subscription, which is registered with 0.3; that call may be a later one *)
C20_AdjustOnlyWhenOpening ==
    [][(phase = "live" /\ options'.inViewThreshold # options.inViewThreshold)
        => /\ options.inViewThreshold = DefaultInViewThreshold
           /\ options'.inViewThreshold = LargeInViewThreshold
           /\ ~observer.active /\ observer'.active
           /\ observer'.threshold = LargeInViewThreshold
           /\ options' = [options EXCEPT !.inViewThreshold = LargeInViewThreshold]]_vars

C20_Witness ==
    /\ phase = "live" /\ observer.active /\ started /\ inView /\ ~completed
    /\ timer = NoTimer /\ options.timeInView > 0
    /\ options.inViewThreshold = LargeInViewThreshold

(* the inViewThreshold of the configuration after the merge with the defaults *)
MergedThreshold == Merge(supplied.opts, supplied.given).inViewThreshold

(* C21 as stated: start() never changes an inViewThreshold that the caller
   supplied, whatever its value in [0,1] and whatever the element's area *)
C21_ExplicitNeverAdjusted ==
    (phase = "live" /\ "inViewThreshold" \in supplied.given)
        => options.inViewThreshold = supplied.opts.inViewThreshold

(* C21 as amended: start() never changes an inViewThreshold other than 0.5,
   supplied or not; a threshold of exactly 0.5 is lowered to 0.3 for a large
   element whether the caller supplied it or left the option out, since start()
   sees the merged value only *)
C21_AdjustedByValue ==
    phase = "live"
        => /\ options.inViewThreshold # MergedThreshold
                => /\ MergedThreshold = DefaultInViewThreshold
                   /\ options.inViewThreshold = LargeInViewThreshold
                   /\ element # Null
           /\ \A page \in Pages :
                LET r == start(Self, page)
                IN  /\ options.inViewThreshold # DefaultInViewThreshold
                        => r.options.inViewThreshold = options.inViewThreshold
                    /\ (/\ options.inViewThreshold = DefaultInViewThreshold
                        /\ r.observer.active /\ ~observer.active
                        /\ page.width * page.height >= largeSizeElement)
                        => r.options.inViewThreshold = LargeInViewThreshold

C21_Witness ==
    /\ phase = "live" /\ "inViewThreshold" \in supplied.given
    /\ supplied.opts.inViewThreshold = DefaultInViewThreshold
    /\ options.inViewThreshold = LargeInViewThreshold
    /\ observer.active /\ observer.threshold = LargeInViewThreshold

(* C22: with isVisible enabled, a sample whose rectangle the classifier rejects
   is ignored whatever its ratio: started, inView, completed, the timer and
   everything else are left as they were *)
C22_RejectedSampleIgnored ==
    (phase = "live" /\ options.isVisible)
        => \A entries \in Batches, dom \in HiddenDoms :
            (Len(entries) > 0 /\ ~_isReallyVisible(Self, entries[1].boundingClientRect, dom))
                => _viewableChange(Self, entries, dom) = Self

C22_Witness ==
    /\ phase = "live" /\ options.isVisible /\ observer.active
    /\ started /\ inView /\ ~completed /\ timer # NoTimer /\ windowBad

(* C23: with isVisible false the classifier is not consulted: under every page
   snapshot a batch of samples has the effect it has under a snapshot that the
   classifier accepts *)
C23_ClassifierUnused ==
    (phase = "live" /\ ~options.isVisible)
        => \A entries \in Batches, dom \in HiddenDoms :
            _viewableChange(Self, entries, dom) = _viewableChange(Self, entries, VisibleDom)

C23_Witness ==
    /\ phase = "live" /\ ~options.isVisible /\ observer.active
    /\ started /\ inView /\ ~completed /\ timer # NoTimer /\ age > 0

(* a 2-D transform with a horizontal or a vertical scale factor of 0:
   matrix(a, b, c, d, tx, ty) has horizontal scale sqrt(a^2 + b^2) and vertical
   scale sqrt(c^2 + d^2) *)
ZeroScale(t) ==
    \/ t.kind = "scale0"
    \/ /\ t.kind = "matrix"
       /\ \/ t.values[1] = 0 /\ t.values[2] = 0
          \/ t.values[3] = 0 /\ t.values[4] = 0

(* all nine sample points of the classified snapshot lie inside the viewport *)
AllInside ==
    \A i \in 1..NumSamplePoints :
        ~OffViewport(SamplePoints(probe.in.rect)[i], probe.in.viewport)

(* the sample points at which elementFromPoint yields a hit of the given kinds *)
PointsOver(kinds) == {i \in 1..NumSamplePoints : probe.in.hits[i] \in kinds}
CoveredCount == Cardinality(PointsOver({"other"}))

(* the classifier run on the snapshot with one field replaced *)
VisibleWith(snapshot) == _isReallyVisible(Self, snapshot.rect, DomOf(snapshot))
ObscuredWith(snapshot) == _isObscured(Self, DomOf(snapshot))

(* C24: the classifier returns true exactly when the element is present and it
   is not hidden by the hidden attribute, by display, visibility or opacity, by
   a rectangle of width or height 0, by a transform with a zero scale factor,
   by the occlusion detector's verdict or by an ancestor's display or visibility *)
C24_ClassifierExact ==
    probe.done
        => (probe.visible <=>
                /\ element # Null
                /\ ~probe.in.hidden
                /\ probe.in.display # "none"
                /\ probe.in.visibility \notin {"hidden", "collapse"}
                /\ probe.in.opacity # 0
                /\ probe.in.rect.width # 0 /\ probe.in.rect.height # 0
                /\ ~ZeroScale(probe.in.transform)
                /\ ~probe.obscured
                /\ \A i \in 1..Len(probe.in.parents) :
                    /\ probe.in.parents[i].display # "none"
                    /\ probe.in.parents[i].visibility \notin {"hidden", "collapse"})

(* C25: an element that every other check accepts is rejected for its transform
   exactly when the transform has a zero horizontal or vertical scale factor *)
C25_RejectsIffZeroScale ==
    (probe.done /\ VisibleWith([probe.in EXCEPT !.transform = Identity]))
        => (~probe.visible <=> ZeroScale(probe.in.transform))

(* C26: with all nine sample points inside the viewport the detector reports
   obscured exactly when coveredCount / 9 >= coverageThreshold *)
C26_ObscuredIffRatio ==
    (probe.done /\ element # Null /\ AllInside)
        => (probe.obscured <=>
                CoveredCount * 100 >= options.coverageThreshold * NumSamplePoints)

C26_Witness ==
    /\ probe.done /\ element # Null /\ AllInside
    /\ CoveredCount = NumSamplePoints /\ options.coverageThreshold = 100
    /\ probe.obscured

C28_NullCountsAsCovered ==
    (probe.done /\ element # Null /\ AllInside)
        => (probe.obscured <=>
                Cardinality(PointsOver({"other", "none"})) * 100
                    >= options.coverageThreshold * NumSamplePoints)

(* C28 as amended: a point in the viewport counts as covered when the query
   yields an element that is neither the tracked element nor a descendant of it;
   a point where the query yields no element counts like a point over the
   element itself *)
C28_OnlyElementsCover ==
    (probe.done /\ element # Null /\ AllInside)
        => /\ probe.obscured =
                ObscuredWith([probe.in EXCEPT !.hits =
                    [i \in 1..NumSamplePoints |-> IF @[i] = "none" THEN "self" ELSE @[i]]])
           /\ PointsOver({"other"}) = {} => ~probe.obscured
           /\ PointsOver({"other"}) = 1..NumSamplePoints => probe.obscured

C28_Witness ==
    /\ probe.done /\ element # Null /\ AllInside
    /\ Cardinality(PointsOver({"none"})) = 4 /\ PointsOver({"other"}) = {}
    /\ options.coverageThreshold = DefaultCoverageThreshold
    /\ ~probe.obscured /\ probe.visible

C30_HookChosenAtCompletion ==
    (phase = "live" /\ ~completed /\ TimerArmed)
        => LET r == _onComplete(Self)
               chosen == IF options.onComplete # NoHook THEN options.onComplete
                         ELSE onComplete
           IN  /\ r.completed
               /\ r.errorSink = <<>>
               /\ r.completeCalls = completeCalls + (IF chosen = NoHook THEN 0 ELSE 1)
               /\ r.thrown = (chosen = "throwing")

C30_Witness ==
    /\ phase = "live" /\ completed /\ completeCalls = 1
    /\ options.onComplete = NoHook /\ onComplete = "fn"
    /\ errorSink = <<>> /\ ~thrown

(* the sink the dispatcher is to use under the hooks of the tracker *)
ExpectedSink(o, assigned) ==
    IF o.onError # NoHook THEN "options.onError"
    ELSE IF assigned # NoHook THEN "this.onError"
    ELSE "console"

(* C31: every error goes to exactly one sink: the option-level onError hook if
   present, otherwise the onError hook assigned after construction if present,
   otherwise the default sink; a hook is given the error, the default sink the
   error's message *)
C31_OneSinkByPriority ==
    /\ Len(errorSink) <= 1
    /\ \A i \in 1..Len(errorSink) :
        /\ errorSink[i].sink = ExpectedSink(options, onError)
        /\ errorSink[i].arg = IF errorSink[i].sink = "console" THEN "message" ELSE "Error"
    /\ phase = "live"
        => LET r == _handleError(Self, "Element not found")
           IN  /\ Len(r.errorSink) = 1
               /\ r.errorSink[1].sink = ExpectedSink(options, onError)
               /\ r.errorSink[1].msg = "Element not found"
               /\ r.errorSink[1].arg =
                    IF ExpectedSink(options, onError) = "console" THEN "message" ELSE "Error"

C31_Witness ==
    /\ phase = "live" /\ options.onError = NoHook /\ onError = "fn"
    /\ Len(errorSink) = 1 /\ errorSink[1].sink = "this.onError"
    /\ errorSink[1].arg = "Error" /\ errorSink[1].msg = "Element not found"

(* C32: the dispatcher never throws: an operation that dispatched an error
   raises no exception to its caller, whatever the hooks are *)
C32_DispatcherNeverThrows ==
    Len(errorSink) > 0 => ~thrown

(* C33: only the first sample of a batch is used: a batch has the effect of its
   first sample alone, and an empty batch has none *)
C33_FirstSampleOnly ==
    phase = "live"
        => \A entries \in Batches, dom \in DomSamples :
            _viewableChange(Self, entries, dom) =
                IF Len(entries) = 0 THEN Self
                ELSE _viewableChange(Self, <<entries[1]>>, dom)

C33_Witness ==
    /\ phase = "live" /\ observer.active /\ started /\ ~inView /\ ~completed
    /\ timer = NoTimer /\ pending = {} /\ options.isVisible

(* C35: an accepted sample that meets neither transition rule (ratio at or above
   the threshold while inView, or below it while not inView) changes nothing: a
   repeated in-view sample neither restarts nor extends the pending timer, and
   a below-threshold sample before any in-view transition leaves started false *)
C35_NoRuleNoChange ==
    (phase = "live" /\ ~completed)
        => \A entries \in Batches, dom \in DomSamples :
            (/\ Accepted(Self, entries, dom)
             /\ \/ entries[1].intersectionRatio >= options.inViewThreshold /\ inView
                \/ entries[1].intersectionRatio < options.inViewThreshold /\ ~inView)
                => _viewableChange(Self, entries, dom) = Self

C35_Witness ==
    /\ phase = "live" /\ observer.active /\ started /\ inView /\ ~completed
    /\ TimerArmed /\ age = 1 /\ ~windowBad /\ options.timeInView = MaxTimeInView

(* C36: once completed is true every sample is ignored: nothing is changed by
   it, and no timer is pending after completion *)
C36_IgnoredOnceCompleted ==
    completed
        => /\ pending = {}
           /\ \A entries \in Batches, dom \in DomSamples :
                _viewableChange(Self, entries, dom) = Self

C36_Witness ==
    /\ phase = "live" /\ completed /\ ~options.autostop /\ observer.active
    /\ sinceDone = "in" /\ timer = NoTimer /\ pending = {} /\ ~thrown

(* C34: on a non-completed tracker, after stop() and start() the next accepted
   sample at or above the threshold arms a completion timer, whatever state the
   tracker was in when stop() was called *)
C34_RestartResumes ==
    (phase = "live" /\ ~completed /\ observer.active)
        => \A page \in Pages, entries \in Batches, dom \in DomSamples :
            LET r1 == start(stop(Self), page)
                r2 == _viewableChange(r1, entries, dom)
            IN  (/\ r1.observer.active
                 /\ Accepted(r1, entries, dom)
                 /\ entries[1].intersectionRatio >= r1.options.inViewThreshold)
                    => /\ r2.timer # NoTimer
                       /\ \E p \in r2.pending : p.id = r2.timer

(* C37: a pending timer implies inView; at most one timer is pending, and it is
   the one whose handle the tracker holds, so none is left dangling and none is
   armed while another is pending *)
C37_PendingTimerInView ==
    /\ pending # {} => inView
    /\ Cardinality(pending) <= 1
    /\ \A p \in pending : p.id = timer

C37_Witness ==
    /\ phase = "live" /\ started /\ inView /\ ~completed /\ observer.active
    /\ Cardinality(pending) = 1 /\ TimerArmed /\ age = 0 /\ completeCalls = 0

(* C38, as an invariant: a subscription exists only while element is set, and
   stop() tears down whatever subscription there is *)
C38_SubscribedOnlyWithElement ==
    /\ observer.active => element # Null
    /\ phase = "live" => ~stop(Self).observer.active /\ stop(Self).subscriptions = 0

(* C38, as a step: an element once resolved is neither changed nor unset *)
C38_ElementKept == element # Null => element' = element

(* C38: element is immutable once set, a subscription exists only while it is
   set, and stop() always tears the subscription down *)
C38_ElementImmutable == []C38_SubscribedOnlyWithElement /\ [][C38_ElementKept]_vars

C38_Witness ==
    /\ phase = "live" /\ element = Target /\ ~observer.active /\ subscriptions = 0
    /\ started /\ ~inView /\ el = "selector"

(* C39: the completion step does its cleanup on every completion, also when the
   completion hook raises: afterwards completed is true, the timer handle is
   cleared and, with autostop, the subscription is torn down *)
C39_CleanupDespiteThrow ==
    (phase = "live" /\ ~completed /\ TimerArmed)
        => LET r == _onComplete([Self EXCEPT !.pending = {}])
           IN  /\ r.completed
               /\ r.timer = NoTimer
               /\ options.autostop => ~r.observer.active

(* C40, construction: a valid configuration with autostart false leaves the
   tracker without element, subscription, timer or dispatched error, and with
   the configuration as merged *)
C40_ConstructionIsLazy ==
    (phase = "new" /\ phase' # "new" /\ SpecValid(options') /\ ~options'.autostart)
        => /\ phase' = "live" /\ ~thrown'
           /\ element' = Null /\ ~observer'.active /\ subscriptions' = 0
           /\ timer' = NoTimer /\ pending' = {}
           /\ errorSink' = <<>>
           /\ options' = supplied'.opts

(* C40, afterwards: element, inViewThreshold and the subscription are set by a
   start() call only *)
C40_OnlyStartResolves ==
    (/\ phase = "live"
     /\ \/ element' # element
        \/ options' # options
        \/ observer'.active /\ ~observer.active)
        => \E page \in Pages : Commit(start(Self, page))

(* C40: construction with a valid configuration and autostart false resolves,
   subscribes, arms and dispatches nothing, even when the target does not exist;
   all of it happens at a later start() only *)
C40_LazyUntilStart == [][C40_ConstructionIsLazy /\ C40_OnlyStartResolves]_vars

C40_Witness ==
    /\ phase = "live" /\ SpecValid(options) /\ ~options.autostart
    /\ el = "nullref" /\ element = Null /\ ~observer.active
    /\ timer = NoTimer /\ errorSink = <<>> /\ ~thrown /\ onError = NoHook

====
